---- MODULE Spec2Model ----
(***************************************************************************)
(* stencil-click-outside: the click-outside registration engine.           *)
(*                                                                         *)
(* The repository carries two revisions of the engine that both expose    *)
(* registerClickOutside / removeClickOutside:                              *)
(*   "guarded"   src/src/index.ts:1-140   marks the element with           *)
(*               clickOutsideRegistered, has no exclusion list;            *)
(*   "unguarded" src/unnamed/part_000     (same text as                    *)
(*               src/src/index.ts:239-390) keeps no marker, resolves the   *)
(*               exclude selector into a snapshot of excluded nodes.       *)
(* variant says which revision is loaded; it never changes.                *)
(*                                                                         *)
(* Strings are sequences of tokens: the words "click" and "keydown" stand  *)
(* for their letters, "," and " " are the comma and the blank.             *)
(***************************************************************************)
EXTENDS Naturals, Sequences, FiniteSets

VARIABLES
    variant,                 \* which revision of the engine is loaded
    listeners,               \* window's listener list, in registration order
    clickOutsideRegistered,  \* element.clickOutsideRegistered, per element
    classX,                  \* the nodes of the document that match ".x"
    last,                    \* the operation that ran last, and how it ended
    invoked,                 \* the callback calls made by the last dispatch
    protocol,                \* per element: its register/remove history
    tally,                   \* per element: qualifying events seen, calls made
    hookLog,                 \* the calls the last wrapped lifecycle hook made
    winner                   \* per element: the first register call made on it

vars == <<variant, listeners, clickOutsideRegistered, classX, last, invoked,
          protocol, tally, hookLog, winner>>

----------------------------------------------------------------------------
(* Bounds *)

MaxListeners == 2

\* the longest run of qualifying events that is counted
MaxEvents == 2

----------------------------------------------------------------------------
(* The document *)

Null == "null"

Nodes == {"body", "A", "a1", "B", "X", "x1", "O"}

\* parentNode of every node; body is the root
Parent ==
    [n \in Nodes |->
        CASE n = "body" -> Null
          [] n = "a1"   -> "A"
          [] n = "x1"   -> "X"
          [] OTHER      -> "body"]

\* document order (pre-order), the order querySelectorAll reports matches in
DocOrder == <<"body", "A", "a1", "B", "X", "x1", "O">>

RECURSIVE Ancestors(_)
\* n and every ancestor of n
Ancestors(n) == IF n = Null THEN {} ELSE {n} \cup Ancestors(Parent[n])

\* Node.contains(other): other is the node itself or a descendant of it;
\* contains(null) is false
Contains(node, other) == other # Null /\ node \in Ancestors(other)

\* the elements registerClickOutside is called on
RefElements == {"A", "B"}

\* the nodes whose class list the page changes at run time
Toggleable == {"X", "O"}

\* event.target of a dispatched event: a node, or null for a synthetic event
Targets == (Nodes \ {"body"}) \cup {Null}

----------------------------------------------------------------------------
(* Strings *)

Comma == ","
Blank == " "

RECURSIVE Split(_, _)
\* String.prototype.split(sep) on a one-token separator
Split(s, sep) ==
    IF \E i \in 1..Len(s) : s[i] = sep
    THEN LET i == CHOOSE j \in 1..Len(s) :
                    s[j] = sep /\ \A k \in 1..(j - 1) : s[k] # sep
         IN  <<SubSeq(s, 1, i - 1)>> \o Split(SubSeq(s, i + 1, Len(s)), sep)
    ELSE <<s>>

RECURSIVE TrimStart(_)
TrimStart(s) ==
    IF s # <<>> /\ Head(s) = Blank THEN TrimStart(Tail(s)) ELSE s

RECURSIVE TrimEnd(_)
TrimEnd(s) ==
    IF s # <<>> /\ s[Len(s)] = Blank THEN TrimEnd(SubSeq(s, 1, Len(s) - 1)) ELSE s

\* String.prototype.trim()
Trim(s) == TrimEnd(TrimStart(s))

\* the event-type names
Click == <<"click">>
Keydown == <<"keydown">>

----------------------------------------------------------------------------
(* Options *)

\* the options the callers pass. triggerEvents <<>> is the unset (undefined,
\* null or empty) value, which is falsy; exclude "" is unset, ".x" is the
\* class selector, "[" is a selector querySelectorAll rejects
ClickOutsideOptions ==
    { [triggerEvents |-> <<>>,                              exclude |-> ""],
      [triggerEvents |-> <<"click">>,                       exclude |-> ".x"],
      [triggerEvents |-> <<"keydown">>,                     exclude |-> "["],
      [triggerEvents |-> <<"click", ",", " ", "keydown">>,  exclude |-> ".x"],
      [triggerEvents |-> <<"click", ",", "click">>,         exclude |-> ""] }

ClickOutsideOptionsDefaults == [triggerEvents |-> <<"click">>, exclude |-> ""]

\* the (component, element, callback) triples the application registers
Calls ==
    { [component |-> "cmpA", element |-> "A", callback |-> "cb1"],
      [component |-> "cmpA", element |-> "A", callback |-> "cb2"],
      [component |-> "cmpB", element |-> "B", callback |-> "cb2"] }

EventTypes == {Click, Keydown}

----------------------------------------------------------------------------
(* Configuration resolution *)

\* getTriggerEvents without the test for an unset value: "".split(",")
getTriggerEventsNoDefault(opt) ==
    LET parts == Split(opt.triggerEvents, Comma)
    IN  [i \in 1..Len(parts) |-> Trim(parts[i])]

\* getTriggerEvents without the trim() of each entry
getTriggerEventsNoTrim(opt) ==
    IF opt.triggerEvents # <<>>
    THEN Split(opt.triggerEvents, Comma)
    ELSE <<Click>>

\* getTriggerEvents(opt)
getTriggerEvents(opt) ==
    IF opt.triggerEvents # <<>>
    THEN LET parts == Split(opt.triggerEvents, Comma)
         IN  [i \in 1..Len(parts) |-> Trim(parts[i])]
    ELSE <<Click>>

\* document.querySelectorAll(selector) on a document whose class-"x" nodes
\* are cx: the matches in document order, or a SyntaxError
querySelectorAll(selector, cx) ==
    IF selector = ".x"
    THEN [threw |-> FALSE, nodes |-> SelectSeq(DocOrder, LAMBDA n : n \in cx)]
    ELSE [threw |-> TRUE, nodes |-> <<>>]

\* the value a function returns when it runs off a bare return
Undefined == [defined |-> FALSE, nodes |-> <<>>]

\* getExcludedNodes without its try/catch: the SyntaxError leaves the function
getExcludedNodesNoCatch(opt, cx) ==
    IF opt.exclude # ""
    THEN LET q == querySelectorAll(opt.exclude, cx)
         IN  [value |-> [defined |-> ~q.threw, nodes |-> q.nodes],
              warned |-> FALSE, threw |-> q.threw]
    ELSE [value |-> Undefined, warned |-> FALSE, threw |-> FALSE]

\* getExcludedNodes(opt): the array of matches, or undefined when exclude
\* is unset or is rejected (then a warning is written to the console);
\* threw says whether an exception leaves the function
getExcludedNodes(opt, cx) ==
    IF opt.exclude # ""
    THEN LET q == querySelectorAll(opt.exclude, cx)
         IN  IF q.threw
             THEN [value |-> Undefined, warned |-> TRUE, threw |-> FALSE]
             ELSE [value |-> [defined |-> TRUE, nodes |-> q.nodes],
                   warned |-> FALSE, threw |-> FALSE]
    ELSE [value |-> Undefined, warned |-> FALSE, threw |-> FALSE]

----------------------------------------------------------------------------
(* The outside test *)

RECURSIVE isExcludedFrom(_, _, _)
\* the for-of loop of isExcluded, from index i on
isExcludedFrom(target, nodes, i) ==
    IF i > Len(nodes) THEN FALSE
    ELSE IF Contains(nodes[i], target) THEN TRUE
    ELSE isExcludedFrom(target, nodes, i + 1)

\* isExcluded with its result negated
isExcludedInverted(target, excludedNodes) ==
    IF target # Null /\ excludedNodes.defined
    THEN ~isExcludedFrom(target, excludedNodes.nodes, 1)
    ELSE FALSE

\* isExcluded(target, excudedNodes)
isExcluded(target, excludedNodes) ==
    IF target # Null /\ excludedNodes.defined
    THEN isExcludedFrom(target, excludedNodes.nodes, 1)
    ELSE FALSE

\* initClickOutside calling callback() instead of callback.call(component)
initClickOutsideNoContext(target, component, element, callback, excludedNodes) ==
    IF ~Contains(element, target) /\ ~isExcluded(target, excludedNodes)
    THEN <<[callback |-> callback, this |-> "undefined", element |-> element]>>
    ELSE <<>>

\* initClickOutside of the unguarded revision: the calls it makes
initClickOutside(target, component, element, callback, excludedNodes) ==
    IF ~Contains(element, target) /\ ~isExcluded(target, excludedNodes)
    THEN <<[callback |-> callback, this |-> component, element |-> element]>>
    ELSE <<>>

\* initClickOutside of the guarded revision without the containment test
initClickOutsideGuardedNoTest(target, component, element, callback) ==
    <<[callback |-> callback, this |-> component, element |-> element]>>

\* initClickOutside of the guarded revision: the calls it makes
initClickOutsideGuarded(target, component, element, callback) ==
    IF ~Contains(element, target)
    THEN <<[callback |-> callback, this |-> component, element |-> element]>>
    ELSE <<>>

----------------------------------------------------------------------------
(* The window's listener list *)

\* the arrow function registerClickOutside hands to addEventListener, with
\* what it captures; origin is the place that created the function object
ListenerOfRegister(component, element, callback, excludedNodes) ==
    [origin |-> "register", component |-> component, element |-> element,
     callback |-> callback, excludedNodes |-> excludedNodes]

\* the arrow function removeClickOutside hands to removeEventListener: a new
\* function object, created by another expression than the registered one
ListenerOfRemove(component, element, callback) ==
    [origin |-> "remove", component |-> component, element |-> element,
     callback |-> callback, excludedNodes |-> Undefined]

\* addEventListener that keeps one handler only, as assigning window.onclick
addEventListenerReplace(ls, type, fn) == <<[type |-> type, fn |-> fn]>>

\* window.addEventListener(type, fn, false); fn is a function object that
\* was just created, so it is never already in the list
addEventListener(ls, type, fn) == Append(ls, [type |-> type, fn |-> fn])

\* removeEventListener dropping every listener of the type, whatever function
removeEventListenerByType(ls, type, fn) ==
    SelectSeq(ls, LAMBDA l : l.type # type)

\* window.removeEventListener(type, fn, false): drops the entry with this
\* type and this very function object, if there is one
removeEventListener(ls, type, fn) ==
    SelectSeq(ls, LAMBDA l : ~(l.type = type /\ l.fn = fn))

RECURSIVE addForEach(_, _, _)
\* getTriggerEvents(opt).forEach(triggerEvent => window.addEventListener(...))
addForEach(ls, types, fn) ==
    IF types = <<>> THEN ls
    ELSE addForEach(addEventListener(ls, Head(types), fn), Tail(types), fn)

RECURSIVE removeForEach(_, _, _)
\* getTriggerEvents(opt).forEach(triggerEvent => window.removeEventListener(...))
removeForEach(ls, types, fn) ==
    IF types = <<>> THEN ls
    ELSE removeForEach(removeEventListener(ls, Head(types), fn), Tail(types), fn)

\* the calls one listener makes when the window hands it an event
CallListener(l, target) ==
    IF variant = "guarded"
    THEN initClickOutsideGuarded(target, l.fn.component, l.fn.element, l.fn.callback)
    ELSE initClickOutside(target, l.fn.component, l.fn.element, l.fn.callback,
                          l.fn.excludedNodes)

RECURSIVE Deliver(_, _, _)
\* the window calls the listeners of the event's type in registration order
Deliver(ls, type, target) ==
    IF ls = <<>> THEN <<>>
    ELSE (IF Head(ls).type = type THEN CallListener(Head(ls), target) ELSE <<>>)
         \o Deliver(Tail(ls), type, target)

----------------------------------------------------------------------------
(* History of the calls made on each element *)

NoArgs ==
    [component |-> "none", callback |-> "none",
     opt |-> ClickOutsideOptionsDefaults, excluded |-> {}]

\* the nodes that match opt.exclude in a document whose class-"x" nodes are cx
Matching(opt, cx) == IF opt.exclude = ".x" THEN cx ELSE {}

\* "idle": never registered; "registered": register was called once and not
\* yet removed; "twice": register was called a second time in a row with the
\* same arguments; "removed": the last register was followed by remove with
\* the same arguments; "off": the calls did not follow any of these patterns
AfterRegister(p, component, callback, opt, cx) ==
    CASE p.st \in {"idle", "removed"} ->
            [st |-> "registered",
             args |-> [component |-> component, callback |-> callback,
                       opt |-> opt, excluded |-> Matching(opt, cx)]]
      [] p.st = "registered" /\ p.args.component = component
            /\ p.args.callback = callback /\ p.args.opt = opt
            /\ p.args.excluded = Matching(opt, cx) ->
            [p EXCEPT !.st = "twice"]
      [] OTHER -> [st |-> "off", args |-> NoArgs]

AfterRemove(p, component, callback, opt) ==
    CASE p.st \in {"idle", "removed"} -> p
      [] p.st = "registered" /\ p.args.component = component
            /\ p.args.callback = callback /\ p.args.opt = opt ->
            [p EXCEPT !.st = "removed"]
      [] OTHER -> [st |-> "off", args |-> NoArgs]

----------------------------------------------------------------------------
(* Operations *)

\* what is kept of the last operation: its name and arguments, the value of
\* element.clickOutsideRegistered when it began, whether it wrote a warning
\* to the console and whether it ended by throwing
Ran(op, element, opt, marked, type, target, warned, threw) ==
    [op |-> op, element |-> element, opt |-> opt, marked |-> marked,
     type |-> type, target |-> target, warned |-> warned, threw |-> threw]

\* registerClickOutside of the unguarded revision
registerClickOutside(component, element, callback, opt) ==
    /\ variant = "unguarded"
    /\ Len(listeners) + Len(getTriggerEvents(opt)) <= MaxListeners
    /\ LET excludedNodes == getExcludedNodes(opt, classX)
           fn == ListenerOfRegister(component, element, callback, excludedNodes.value)
       IN  /\ listeners' = IF excludedNodes.threw THEN listeners
                           ELSE addForEach(listeners, getTriggerEvents(opt), fn)
           /\ last' = Ran("register", element, opt, clickOutsideRegistered[element],
                          <<>>, Null, excludedNodes.warned, excludedNodes.threw)
    /\ protocol' = [protocol EXCEPT
                        ![element] = AfterRegister(@, component, callback, opt, classX)]
    /\ invoked' = <<>>
    /\ UNCHANGED <<variant, clickOutsideRegistered, classX>>

\* removeClickOutside of the unguarded revision
removeClickOutside(component, element, callback, opt) ==
    /\ variant = "unguarded"
    /\ listeners' = removeForEach(listeners, getTriggerEvents(opt),
                                  ListenerOfRemove(component, element, callback))
    /\ last' = Ran("remove", element, opt, clickOutsideRegistered[element],
                   <<>>, Null, FALSE, FALSE)
    /\ protocol' = [protocol EXCEPT
                        ![element] = AfterRemove(@, component, callback, opt)]
    /\ invoked' = <<>>
    /\ UNCHANGED <<variant, clickOutsideRegistered, classX>>

\* guarded register that does not look at the marker
registerClickOutsideGuardedNoFlag(component, element, callback, opt) ==
    /\ variant = "guarded"
    /\ Len(listeners) + Len(getTriggerEvents(opt)) <= MaxListeners
    /\ listeners' = addForEach(listeners, getTriggerEvents(opt),
                        ListenerOfRegister(component, element, callback, Undefined))
    /\ clickOutsideRegistered' = [clickOutsideRegistered EXCEPT ![element] = TRUE]
    /\ last' = Ran("register", element, opt, clickOutsideRegistered[element],
                   <<>>, Null, FALSE, FALSE)
    /\ protocol' = [protocol EXCEPT
                        ![element] = AfterRegister(@, component, callback, opt, classX)]
    /\ invoked' = <<>>
    /\ UNCHANGED <<variant, classX>>

\* registerClickOutside of the guarded revision
registerClickOutsideGuarded(component, element, callback, opt) ==
    /\ variant = "guarded"
    /\ clickOutsideRegistered[element]
          \/ Len(listeners) + Len(getTriggerEvents(opt)) <= MaxListeners
    /\ IF ~clickOutsideRegistered[element]
       THEN /\ listeners' = addForEach(listeners, getTriggerEvents(opt),
                    ListenerOfRegister(component, element, callback, Undefined))
            /\ clickOutsideRegistered' =
                    [clickOutsideRegistered EXCEPT ![element] = TRUE]
       ELSE UNCHANGED <<listeners, clickOutsideRegistered>>
    /\ last' = Ran("register", element, opt, clickOutsideRegistered[element],
                   <<>>, Null, FALSE, FALSE)
    /\ protocol' = [protocol EXCEPT
                        ![element] = AfterRegister(@, component, callback, opt, classX)]
    /\ invoked' = <<>>
    /\ UNCHANGED <<variant, classX>>

\* removeClickOutside of the guarded revision
removeClickOutsideGuarded(component, element, callback, opt) ==
    /\ variant = "guarded"
    /\ IF clickOutsideRegistered[element]
       THEN /\ listeners' = removeForEach(listeners, getTriggerEvents(opt),
                                ListenerOfRemove(component, element, callback))
            /\ clickOutsideRegistered' =
                    [clickOutsideRegistered EXCEPT ![element] = FALSE]
       ELSE UNCHANGED <<listeners, clickOutsideRegistered>>
    /\ last' = Ran("remove", element, opt, clickOutsideRegistered[element],
                   <<>>, Null, FALSE, FALSE)
    /\ protocol' = [protocol EXCEPT
                        ![element] = AfterRemove(@, component, callback, opt)]
    /\ invoked' = <<>>
    /\ UNCHANGED <<variant, classX>>

\* the host delivers one event of the given type and target to the window
dispatchEvent(type, target) ==
    /\ invoked' = Deliver(listeners, type, target)
    /\ last' = Ran("dispatch", "none", ClickOutsideOptionsDefaults, FALSE, type, target, FALSE, FALSE)
    /\ UNCHANGED <<variant, listeners, clickOutsideRegistered, classX, protocol>>

\* the page adds class "x" to a node or takes it away (the document that
\* getExcludedNodes queries changes after register returned)
classListToggle(n) ==
    /\ classX' = IF n \in classX THEN classX \ {n} ELSE classX \cup {n}
    /\ last' = Ran("toggle", n, ClickOutsideOptionsDefaults, FALSE, <<>>, Null, FALSE, FALSE)
    /\ invoked' = <<>>
    /\ UNCHANGED <<variant, listeners, clickOutsideRegistered, protocol>>

\* no register call was made on the element yet
NoWinner == [st |-> "none", args |-> NoArgs]

\* nothing counted yet
NoTally == [seen |-> 0, called |-> 0]

\* no wrapped lifecycle hook has run
NoHook == [hook |-> "none", component |-> "none", calls |-> <<>>]

Init ==
    /\ variant \in {"guarded", "unguarded"}
    /\ listeners = <<>>
    /\ clickOutsideRegistered = [e \in RefElements |-> FALSE]
    /\ classX = {"X"}
    /\ last = Ran("init", "none", ClickOutsideOptionsDefaults, FALSE, <<>>, Null, FALSE, FALSE)
    /\ invoked = <<>>
    /\ protocol = [e \in RefElements |-> [st |-> "idle", args |-> NoArgs]]
    /\ tally = [e \in RefElements |-> NoTally]
    /\ hookLog = NoHook
    /\ winner = [e \in RefElements |-> NoWinner]

Register ==
    \E c \in Calls, opt \in ClickOutsideOptions :
        /\ registerClickOutside(c.component, c.element, c.callback, opt)
        /\ UNCHANGED <<tally, hookLog, winner>>

Remove ==
    \E c \in Calls, opt \in ClickOutsideOptions :
        /\ removeClickOutside(c.component, c.element, c.callback, opt)
        /\ UNCHANGED <<tally, hookLog, winner>>

RegisterGuarded ==
    \E c \in Calls, opt \in ClickOutsideOptions :
        /\ registerClickOutsideGuarded(c.component, c.element, c.callback, opt)
        /\ UNCHANGED <<tally, hookLog, winner>>

RemoveGuarded ==
    \E c \in Calls, opt \in ClickOutsideOptions :
        /\ removeClickOutsideGuarded(c.component, c.element, c.callback, opt)
        /\ UNCHANGED <<tally, hookLog, winner>>

Dispatch ==
    \E type \in EventTypes, target \in Targets :
        /\ dispatchEvent(type, target)
        /\ UNCHANGED <<tally, hookLog, winner>>

Next == Register \/ Remove \/ RegisterGuarded \/ RemoveGuarded \/ Dispatch

Spec == Init /\ [][Next]_vars

----------------------------------------------------------------------------
(* The unguarded revision on a document whose class lists change *)

CallsSnapshot == {c \in Calls : c.callback = "cb1" \/ c.element = "B"}

OptionsSnapshot == {opt \in ClickOutsideOptions : Len(opt.triggerEvents) <= 1 /\ opt.exclude # "["}

InitSnapshot == Init /\ variant = "unguarded"

RegisterSnapshot ==
    \E c \in CallsSnapshot, opt \in OptionsSnapshot :
        /\ registerClickOutside(c.component, c.element, c.callback, opt)
        /\ UNCHANGED <<tally, hookLog, winner>>

RemoveSnapshot ==
    \E c \in CallsSnapshot, opt \in OptionsSnapshot :
        /\ removeClickOutside(c.component, c.element, c.callback, opt)
        /\ UNCHANGED <<tally, hookLog, winner>>

Toggle ==
    \E n \in Toggleable :
        /\ classListToggle(n)
        /\ UNCHANGED <<tally, hookLog, winner>>

NextSnapshot == RegisterSnapshot \/ RemoveSnapshot \/ Dispatch \/ Toggle

SpecSnapshot == InitSnapshot /\ [][NextSnapshot]_vars

----------------------------------------------------------------------------
(* Runs of events, counted *)

CallsOrder == {c \in Calls : c.callback = "cb1" \/ c.element = "B"}

OptionsOrder ==
    {opt \in ClickOutsideOptions :
        opt.exclude # "[" /\ Len(opt.triggerEvents) \in {0, 4}}

\* an event of this type and target qualifies for the registration the
\* history of e records: a trigger event type of its options, a target node
\* outside e and outside the nodes that matched exclude at register time
QualifiesFor(e, type, target) ==
    /\ protocol[e].st = "registered"
    /\ type \in {getTriggerEvents(protocol[e].args.opt)[i] :
                    i \in 1..Len(getTriggerEvents(protocol[e].args.opt))}
    /\ target # Null
    /\ ~Contains(e, target)
    /\ \A x \in protocol[e].args.excluded : ~Contains(x, target)

\* register, after which the count for the element starts anew
RegisterOrder ==
    \E c \in CallsOrder, opt \in OptionsOrder :
        /\ \/ registerClickOutside(c.component, c.element, c.callback, opt)
           \/ registerClickOutsideGuarded(c.component, c.element, c.callback, opt)
        /\ tally' = [tally EXCEPT ![c.element] = NoTally]
        /\ UNCHANGED <<hookLog, winner>>

\* remove, after which the count for the element starts anew
RemoveOrder ==
    \E c \in CallsOrder, opt \in OptionsOrder :
        /\ \/ removeClickOutside(c.component, c.element, c.callback, opt)
           \/ removeClickOutsideGuarded(c.component, c.element, c.callback, opt)
        /\ tally' = [tally EXCEPT ![c.element] = NoTally]
        /\ UNCHANGED <<hookLog, winner>>

\* the host delivers the next event; for every element the event qualifies
\* for, the event and the calls made for the element during it are counted
DispatchOrder ==
    \E type \in EventTypes, target \in Targets :
        /\ \A e \in RefElements :
                QualifiesFor(e, type, target) => tally[e].seen < MaxEvents
        /\ dispatchEvent(type, target)
        /\ tally' = [e \in RefElements |->
                        IF QualifiesFor(e, type, target)
                        THEN [seen |-> tally[e].seen + 1,
                              called |-> tally[e].called + Cardinality(
                                  {i \in 1..Len(invoked') : invoked'[i].element = e})]
                        ELSE tally[e]]
        /\ UNCHANGED <<hookLog, winner>>

NextOrder == RegisterOrder \/ RemoveOrder \/ DispatchOrder

SpecOrder == Init /\ [][NextOrder]_vars

----------------------------------------------------------------------------
(* Every form of triggerEvents, one owner and callback per element *)

RegisterTypes ==
    \E c \in CallsOrder, opt \in ClickOutsideOptions :
        /\ \/ registerClickOutside(c.component, c.element, c.callback, opt)
           \/ registerClickOutsideGuarded(c.component, c.element, c.callback, opt)
        /\ UNCHANGED <<tally, hookLog, winner>>

RemoveTypes ==
    \E c \in CallsOrder, opt \in ClickOutsideOptions :
        /\ \/ removeClickOutside(c.component, c.element, c.callback, opt)
           \/ removeClickOutsideGuarded(c.component, c.element, c.callback, opt)
        /\ UNCHANGED <<tally, hookLog, winner>>

NextTypes == RegisterTypes \/ RemoveTypes \/ Dispatch

SpecTypes == Init /\ [][NextTypes]_vars

----------------------------------------------------------------------------
(* The guarded revision, with the first register call on each element kept *)

InitFirst == Init /\ variant = "guarded"

\* options that differ in their trigger events: unset, "keydown" and
\* "click, keydown"
OptionsFirst ==
    {opt \in ClickOutsideOptions :
        opt.triggerEvents = <<>> \/ opt.triggerEvents = Keydown
            \/ Len(opt.triggerEvents) = 4}

\* register; the arguments of the first call on the element are kept, and a
\* later call is noted as having followed it
RegisterFirst ==
    \E c \in Calls, opt \in OptionsFirst :
        /\ registerClickOutsideGuarded(c.component, c.element, c.callback, opt)
        /\ winner' = [winner EXCEPT ![c.element] =
                        CASE @.st = "none" ->
                                [st |-> "first",
                                 args |-> [component |-> c.component,
                                           callback |-> c.callback, opt |-> opt,
                                           excluded |-> Matching(opt, classX)]]
                          [] @.st \in {"first", "second"} -> [@ EXCEPT !.st = "second"]
                          [] OTHER -> @]
        /\ UNCHANGED <<tally, hookLog>>

\* remove, which ends the time the first registration is followed
RemoveFirst ==
    \E c \in Calls, opt \in OptionsFirst :
        /\ removeClickOutsideGuarded(c.component, c.element, c.callback, opt)
        /\ winner' = [winner EXCEPT ![c.element] = [st |-> "void", args |-> NoArgs]]
        /\ UNCHANGED <<tally, hookLog>>

NextFirst == RegisterFirst \/ RemoveFirst \/ Dispatch

SpecFirst == InitFirst /\ [][NextFirst]_vars

----------------------------------------------------------------------------
(* The @ClickOutside decorator *)

\* the component instances whose class has a method annotated @ClickOutside
Components == {"cmpA", "cmpB"}

\* getElement(this)
getElement(c) == IF c = "cmpA" THEN "A" ELSE "B"

\* this[methodName]
MethodOf(c) == IF c = "cmpA" THEN "cb1" ELSE "cb2"

\* the opt the decorator was applied with: cmpA's class uses @ClickOutside(),
\* cmpB's class passes trigger events and an exclude selector
DecoratorOpt(c) ==
    IF c = "cmpA" THEN ClickOutsideOptionsDefaults
    ELSE [triggerEvents |-> <<"click", ",", " ", "keydown">>, exclude |-> ".x"]

\* the lifecycle handlers the class declared itself: cmpA's class has both,
\* cmpB's class has none
Original(c, hook) == IF c = "cmpA" THEN <<hook>> ELSE <<>>

\* proto.componentDidLoad as the decorator replaced it
componentDidLoad(c) ==
    /\ \/ registerClickOutside(c, getElement(c), MethodOf(c), DecoratorOpt(c))
       \/ registerClickOutsideGuarded(c, getElement(c), MethodOf(c), DecoratorOpt(c))
    /\ hookLog' = [hook |-> "componentDidLoad", component |-> c,
                   calls |-> <<"registerClickOutside">>
                                \o Original(c, "componentDidLoad")]
    /\ UNCHANGED <<tally, winner>>

\* proto.componentDidUnload as the decorator replaced it
componentDidUnload(c) ==
    /\ \/ removeClickOutside(c, getElement(c), MethodOf(c), DecoratorOpt(c))
       \/ removeClickOutsideGuarded(c, getElement(c), MethodOf(c), DecoratorOpt(c))
    /\ hookLog' = [hook |-> "componentDidUnload", component |-> c,
                   calls |-> <<"removeClickOutside">>
                                \o Original(c, "componentDidUnload")]
    /\ UNCHANGED <<tally, winner>>

DidLoad == \E c \in Components : componentDidLoad(c)

DidUnload == \E c \in Components : componentDidUnload(c)

NextDecorator == DidLoad \/ DidUnload \/ Dispatch

SpecDecorator == Init /\ [][NextDecorator]_vars



Range(f) == {f[i] : i \in DOMAIN f}

\* the listeners installed for element e and event type t
ListenersOf(e, t) ==
    {i \in 1..Len(listeners) : listeners[i].fn.element = e /\ listeners[i].type = t}

\* the listeners installed for element e
ListenersFor(e) == {i \in 1..Len(listeners) : listeners[i].fn.element = e}

\* the callback calls the last dispatch made on behalf of element e
CallsFor(e) == {i \in 1..Len(invoked) : invoked[i].element = e}

\* the last operation was the dispatch of an event that qualifies for the
\* registration the history of e records: a trigger event type of its
\* options, and a target node outside e and outside every node that matched
\* the exclude selector when register was called
Qualifies(e) ==
    /\ last.op = "dispatch"
    /\ last.type \in Range(getTriggerEvents(protocol[e].args.opt))
    /\ last.target # Null
    /\ ~Contains(e, last.target)
    /\ \A x \in protocol[e].args.excluded : ~Contains(x, last.target)

\* no event type occurs twice in the resolved trigger list
Deduplicated(types) ==
    \A i, j \in 1..Len(types) : types[i] = types[j] => i = j

----------------------------------------------------------------------------
(* Properties *)

\* C1: after register followed by remove with the same arguments, a later
\* trigger event whose target is outside the element and outside every
\* excluded node invokes the callback zero times.
C1_NoCallAfterRemove ==
    \A e \in RefElements :
        (protocol[e].st = "removed" /\ Qualifies(e)) => CallsFor(e) = {}

\* C2: after register was called twice in a row on the same element, one
\* qualifying outside event invokes the callback exactly once.
C2_DoubleRegisterCallsOnce ==
    \A e \in RefElements :
        (/\ protocol[e].st = "twice"
         /\ Deduplicated(getTriggerEvents(protocol[e].args.opt))
         /\ Qualifies(e))
        => Cardinality(CallsFor(e)) = 1

\* C3: when every register on an element has been followed by its matching
\* remove, no listener installed for that element is left on the window.
C3_NoListenerLeak ==
    \A e \in RefElements :
        protocol[e].st \in {"idle", "removed"} => ListenersFor(e) = {}

\* the nodes a listener treats as excluded: the snapshot its function captured
ExcludedOf(l) ==
    IF l.fn.excludedNodes.defined THEN Range(l.fn.excludedNodes.nodes) ELSE {}

\* C4: while exactly one listener is installed for an element and an event
\* type, a dispatched event of that type whose target node is contained
\* neither by the element nor by any excluded node of that listener invokes
\* the callback exactly once, with the owner as this.
C4_OutsideCallsOnce ==
    \A e \in RefElements :
        (/\ last.op = "dispatch"
         /\ last.target \in Nodes
         /\ ~Contains(e, last.target)
         /\ Cardinality(ListenersOf(e, last.type)) = 1
         /\ \A i \in ListenersOf(e, last.type) :
                \A x \in ExcludedOf(listeners[i]) : ~Contains(x, last.target))
        => /\ Cardinality(CallsFor(e)) = 1
           /\ \A i \in ListenersOf(e, last.type), j \in CallsFor(e) :
                /\ invoked[j].callback = listeners[i].fn.callback
                /\ invoked[j].this = listeners[i].fn.component

\* a click outside A and outside the excluded node X reached A's only click
\* listener, which holds a snapshot with X in it, and called back once
C4_Witness ==
    /\ last.op = "dispatch" /\ last.target = "O"
    /\ Cardinality(ListenersOf("A", last.type)) = 1
    /\ \E i \in ListenersOf("A", last.type) : "X" \in ExcludedOf(listeners[i])
    /\ Cardinality(CallsFor("A")) = 1

\* C5: a dispatched event whose target is the element or a descendant of it
\* never invokes that element's callback.
C5_InsideNeverCalls ==
    \A e \in RefElements :
        (last.op = "dispatch" /\ Contains(e, last.target)) => CallsFor(e) = {}

\* an event on a descendant of A was delivered to a listener of A, which did
\* not call back, while a listener of B did
C5_Witness ==
    /\ last.op = "dispatch" /\ last.target = "a1"
    /\ ListenersOf("A", last.type) # {}
    /\ CallsFor("A") = {}
    /\ CallsFor("B") # {}

\* C6: a dispatched event whose target is, or is contained by, a node that
\* matched the exclude selector when register was called does not invoke the
\* callback.
C6_ExcludedNeverCalls ==
    \A e \in RefElements :
        (/\ last.op = "dispatch"
         /\ protocol[e].st = "registered"
         /\ \E x \in protocol[e].args.excluded : Contains(x, last.target))
        => CallsFor(e) = {}

\* C7: a dispatched event without a target invokes no callback and raises
\* no error.
C7_NullTargetNeverCalls ==
    (last.op = "dispatch" /\ last.target = Null) => (invoked = <<>> /\ ~last.threw)

\* the selector is one querySelectorAll rejects
Malformed(selector) == selector # "" /\ querySelectorAll(selector, classX).threw

\* C8: register with a malformed exclude expression raises no error and
\* installs one listener per trigger event type, with no exclusions; a later
\* qualifying outside event (also one inside a node of class "x") invokes the
\* callback.
C8_MalformedExcludeFailsOpen ==
    /\ \A e \in RefElements :
        (/\ last.op = "register" /\ last.element = e
         /\ Malformed(last.opt.exclude)
         /\ ~(variant = "guarded" /\ last.marked))
        => LET types == getTriggerEvents(last.opt)
               n == Len(types)
               k == Len(listeners)
           IN  /\ ~last.threw
               /\ k >= n
               /\ \A i \in 1..n :
                    /\ listeners[k - n + i].type = types[i]
                    /\ listeners[k - n + i].fn.element = e
                    /\ ExcludedOf(listeners[k - n + i]) = {}
    /\ \A e \in RefElements :
        (/\ protocol[e].st = "registered"
         /\ Malformed(protocol[e].args.opt.exclude)
         /\ Qualifies(e))
        => \E j \in CallsFor(e) :
                /\ invoked[j].callback = protocol[e].args.callback
                /\ invoked[j].this = protocol[e].args.component

\* B was registered with a malformed exclude expression, and an event inside
\* the node of class "x" invoked its callback
C8_Witness ==
    /\ variant = "unguarded"
    /\ protocol["B"].st = "registered"
    /\ Malformed(protocol["B"].args.opt.exclude)
    /\ Qualifies("B") /\ last.target = "x1"
    /\ CallsFor("B") # {}

\* the element has no registration to remove: its marker is clear and, in
\* the revision that keeps no marker, no register call is outstanding
NotRegistered(e) ==
    /\ ~clickOutsideRegistered[e]
    /\ variant = "unguarded" => protocol[e].st \in {"idle", "removed"}

\* C9: remove on an element that is not registered raises no error and
\* leaves the window's listeners and every element's marker as they were.
C9_RemoveUnregisteredIsNoOp ==
    [][\A e \in RefElements :
        (last'.op = "remove" /\ last'.element = e /\ NotRegistered(e))
        => /\ listeners' = listeners
           /\ clickOutsideRegistered' = clickOutsideRegistered
           /\ ~last'.threw]_vars

\* remove ran on B, which was never registered, while A had a listener of
\* the event type that remove names
C9_Witness ==
    /\ last.op = "remove" /\ last.element = "B" /\ ~last.marked
    /\ protocol["B"].st = "idle"
    /\ \E t \in Range(getTriggerEvents(last.opt)) : ListenersOf("A", t) # {}

\* C10: at most one listener is installed per element and event type.
C10_OneListenerPerPair ==
    \A e \in RefElements, t \in EventTypes : Cardinality(ListenersOf(e, t)) <= 1


\* the step is a register call on e that is not skipped by the marker
RegisterStepOn(e) ==
    /\ last'.op = "register" /\ last'.element = e
    /\ ~(variant = "guarded" /\ clickOutsideRegistered[e])

\* the listeners the step appended to the window's list
Added == SubSeq(listeners', Len(listeners) + 1, Len(listeners'))

\* the step only appended to the window's list
OnlyAppended ==
    /\ Len(listeners') >= Len(listeners)
    /\ SubSeq(listeners', 1, Len(listeners)) = listeners

\* C11: with triggerEvents unset, register installs exactly one listener,
\* for "click"; while that listener is the element's only one, only click
\* events invoke the callback, and a qualifying click invokes it once.
C11_UnsetResolvesToClick ==
    /\ [][\A e \in RefElements :
            (RegisterStepOn(e) /\ last'.opt.triggerEvents = <<>>)
            => /\ OnlyAppended
               /\ Len(Added) = 1
               /\ Added[1].type = <<"click">>
               /\ Added[1].fn.element = e]_vars
    /\ [](\A e \in RefElements :
            (/\ protocol[e].st = "registered"
             /\ protocol[e].args.opt.triggerEvents = <<>>
             /\ Cardinality(ListenersFor(e)) = 1
             /\ last.op = "dispatch")
            => /\ CallsFor(e) # {} => last.type = <<"click">>
               /\ Qualifies(e) => Cardinality(CallsFor(e)) = 1)

\* A was registered with triggerEvents unset; a keydown outside A invoked
\* nothing for A
C11_Witness ==
    /\ protocol["A"].st = "registered"
    /\ protocol["A"].args.opt.triggerEvents = <<>>
    /\ Cardinality(ListenersFor("A")) = 1
    /\ last.op = "dispatch" /\ last.type = Keydown /\ last.target = "O"
    /\ CallsFor("A") = {}

\* the string without its commas and blanks
Letters(s) == SelectSeq(s, LAMBDA c : c \notin {Comma, Blank})

RECURSIVE Joined(_)
\* the entries of a list of strings, one after the other
Joined(ss) == IF ss = <<>> THEN <<>> ELSE Head(ss) \o Joined(Tail(ss))

\* C12: with a non-empty triggerEvents, register installs one listener per
\* comma-separated entry, in order, each entry trimmed ("click, keydown"
\* gives click then keydown); a qualifying event of one of these types
\* invokes the callback, and while the element has no other listeners an
\* event of another type does not.
C12_SplitTrimInOrder ==
    /\ [][\A e \in RefElements :
            (RegisterStepOn(e) /\ last'.opt.triggerEvents # <<>>)
            => LET str == last'.opt.triggerEvents
                   types == [i \in 1..Len(Added) |-> Added[i].type]
               IN  /\ OnlyAppended
                   /\ Len(Added) = Len(SelectSeq(str, LAMBDA c : c = Comma)) + 1
                   /\ \A i \in 1..Len(Added) :
                        /\ Added[i].fn.element = e
                        /\ Comma \notin Range(types[i])
                        /\ types[i] # <<>> =>
                              (Head(types[i]) # Blank /\ types[i][Len(types[i])] # Blank)
                   /\ Joined(types) = Letters(str)
                   /\ str = <<"click", ",", " ", "keydown">>
                        => types = << <<"click">>, <<"keydown">> >>]_vars
    /\ [](\A e \in RefElements :
            (/\ protocol[e].st = "registered"
             /\ protocol[e].args.opt.triggerEvents # <<>>
             /\ last.op = "dispatch")
            => /\ Qualifies(e) =>
                    \E j \in CallsFor(e) :
                        /\ invoked[j].callback = protocol[e].args.callback
                        /\ invoked[j].this = protocol[e].args.component
               /\ (/\ Cardinality(ListenersFor(e))
                        = Len(getTriggerEvents(protocol[e].args.opt))
                   /\ CallsFor(e) # {})
                  => last.type \in Range(getTriggerEvents(protocol[e].args.opt)))

\* B was registered for "click, keydown"; a keydown outside B invoked its
\* callback
C12_Witness ==
    /\ protocol["B"].st = "registered"
    /\ protocol["B"].args.opt.triggerEvents = <<"click", ",", " ", "keydown">>
    /\ Cardinality(ListenersFor("B")) = 2
    /\ Qualifies("B") /\ last.type = Keydown
    /\ Cardinality(CallsFor("B")) = 1

\* C13: in the revision that keeps the marker, an element is marked
\* registered exactly when listeners installed for it are on the window.
C13_MarkerMatchesListeners ==
    variant = "guarded" =>
        \A e \in RefElements : clickOutsideRegistered[e] <=> ListenersFor(e) # {}


\* C14: the excluded nodes are those that matched when register was called:
\* until the element is registered again, an event inside one of them never
\* invokes the callback, also after the node stopped matching, and an event
\* inside a node that started matching only later does.
C14_ExcludedIsSnapshot ==
    \A e \in RefElements :
        (/\ last.op = "dispatch"
         /\ protocol[e].st = "registered"
         /\ last.type \in Range(getTriggerEvents(protocol[e].args.opt))
         /\ last.target \in Nodes
         /\ ~Contains(e, last.target))
        => IF \E x \in protocol[e].args.excluded : Contains(x, last.target)
           THEN CallsFor(e) = {}
           ELSE CallsFor(e) # {}


\* the element's listeners are those of one registration: one per trigger
\* event type of the registration its history records
RegisteredOnce(e) ==
    /\ protocol[e].st = "registered"
    /\ Deduplicated(getTriggerEvents(protocol[e].args.opt))
    /\ Cardinality(ListenersFor(e)) = Len(getTriggerEvents(protocol[e].args.opt))

\* C15: while an element is registered once, after every event the number
\* of callback calls made for it equals the number of qualifying events
\* dispatched so far, and a qualifying event's one call is made during its
\* own dispatch.
C15_OneCallPerEventInOrder ==
    \A e \in RefElements :
        RegisteredOnce(e)
        => /\ tally[e].called = tally[e].seen
           /\ Qualifies(e) => Cardinality(CallsFor(e)) = 1

\* two qualifying events in a row were dispatched for A, the second of them
\* last, and two calls were made
C15_Witness ==
    /\ RegisteredOnce("A")
    /\ tally["A"].seen = 2 /\ tally["A"].called = 2
    /\ Qualifies("A") /\ Cardinality(CallsFor("A")) = 1


\* the listeners of element e in the window's list, in registration order
ListenersSeqOf(ls, e) == SelectSeq(ls, LAMBDA l : l.fn.element = e)

\* the calls made for element e when the window delivers an event to ls
CallsSeqOf(ls, e, type, target) ==
    SelectSeq(Deliver(ls, type, target), LAMBDA c : c.element = e)

\* one target of each kind: inside A, inside B, inside the excluded node X,
\* outside all of them
FrameTargets == {"a1", "B", "x1", "O"}

\* the event just dispatched reached exactly one listener of each element
BothRegistered ==
    /\ last.op = "dispatch" /\ last.target \in Nodes
    /\ \A e \in RefElements : Cardinality(ListenersOf(e, last.type)) = 1

\* the target of the event just dispatched is outside every node that the
\* listeners of e hold as excluded
NotExcludedFor(e) ==
    \A i \in ListenersOf(e, last.type) :
        \A x \in ExcludedOf(listeners[i]) : ~Contains(x, last.target)

\* C16: with A and B both registered, an event inside A and outside B calls
\* only B's callback and an event outside both calls each callback exactly
\* once; a register or remove on one element leaves the other element's
\* listeners, its registered marker and the calls its listeners make for
\* any event unchanged.
C16_ElementsIndependent ==
    /\ [](BothRegistered =>
            /\ (Contains("A", last.target) /\ ~Contains("B", last.target)
                    /\ NotExcludedFor("B"))
               => /\ CallsFor("A") = {}
                  /\ Cardinality(CallsFor("B")) = 1
                  /\ \A i \in ListenersOf("B", last.type), j \in CallsFor("B") :
                        invoked[j].callback = listeners[i].fn.callback
            /\ (~Contains("A", last.target) /\ ~Contains("B", last.target)
                    /\ NotExcludedFor("A") /\ NotExcludedFor("B"))
               => \A e \in RefElements : Cardinality(CallsFor(e)) = 1)
    /\ [][\A a, b \in RefElements :
            (a # b /\ last'.op \in {"register", "remove"} /\ last'.element = a)
            => /\ ListenersSeqOf(listeners', b) = ListenersSeqOf(listeners, b)
               /\ clickOutsideRegistered'[b] = clickOutsideRegistered[b]
               /\ \A type \in EventTypes, target \in FrameTargets :
                    CallsSeqOf(listeners', b, type, target)
                        = CallsSeqOf(listeners, b, type, target)]_vars

\* A and B are both registered, for different callbacks, and a click on a
\* descendant of A called B's callback once and A's not at all
C16_Witness ==
    /\ BothRegistered
    /\ last.target = "a1"
    /\ \E i \in ListenersOf("A", last.type) : listeners[i].fn.callback = "cb1"
    /\ CallsFor("A") = {}
    /\ Cardinality(CallsFor("B")) = 1
    /\ \A j \in CallsFor("B") : invoked[j].callback = "cb2"


\* C17: in the guarded revision a register call on an element whose marker
\* is set changes neither the listeners nor the markers; after the first
\* register call on an element was followed by another, every call an event
\* makes for the element is a call of the first callback with the first
\* owner, an event of a type outside the first trigger events makes none,
\* and an event of one of the first trigger events with a target outside
\* the element and outside the excluded nodes makes one.
C17_FirstRegistrationWins ==
    /\ [][(variant = "guarded" /\ last'.op = "register" /\ last'.marked)
            => UNCHANGED <<listeners, clickOutsideRegistered>>]_vars
    /\ [](\A e \in RefElements :
            (variant = "guarded" /\ winner[e].st = "second" /\ last.op = "dispatch")
            => /\ \A j \in CallsFor(e) :
                    /\ invoked[j].callback = winner[e].args.callback
                    /\ invoked[j].this = winner[e].args.component
               /\ last.type \notin Range(getTriggerEvents(winner[e].args.opt))
                    => CallsFor(e) = {}
               /\ (/\ last.type \in Range(getTriggerEvents(winner[e].args.opt))
                   /\ last.target # Null
                   /\ ~Contains(e, last.target)
                   /\ \A x \in winner[e].args.excluded : ~Contains(x, last.target))
                    => CallsFor(e) # {})

\* register(cmpA, A, cb1, {}) was followed by a register on A with other
\* arguments; then a click outside A called cb1
C17_Witness ==
    /\ variant = "guarded"
    /\ winner["A"].st = "second"
    /\ winner["A"].args.callback = "cb1"
    /\ winner["A"].args.opt.triggerEvents = <<>>
    /\ protocol["A"].st = "off"
    /\ last.op = "dispatch" /\ last.type = Click /\ last.target = "O"
    /\ \E j \in CallsFor("A") : invoked[j].callback = "cb1"


\* C18: a wrapped hook calls register (remove) first and then the class's
\* own handler once, if it has one; while a component is attached an outside
\* click calls its annotated method, and after it was detached an event
\* calls nothing for its host.
C18_HooksKeepHandlers ==
    /\ hookLog.hook = "componentDidLoad"
        => hookLog.calls = <<"registerClickOutside">>
                                \o Original(hookLog.component, "componentDidLoad")
    /\ hookLog.hook = "componentDidUnload"
        => hookLog.calls = <<"removeClickOutside">>
                                \o Original(hookLog.component, "componentDidUnload")
    /\ \A c \in Components :
        /\ (/\ protocol[getElement(c)].st = "registered"
            /\ Qualifies(getElement(c)) /\ last.type = Click)
           => \E j \in CallsFor(getElement(c)) :
                invoked[j].callback = MethodOf(c) /\ invoked[j].this = c
        /\ (protocol[getElement(c)].st = "removed" /\ last.op = "dispatch")
           => CallsFor(getElement(c)) = {}

====
